---- MODULE Spec2Model ----
(***************************************************************************)
(* Model of 0x00-personal_data/filtered_logger.py: the redaction function  *)
(* filter_datum, the RedactingFormatter, the get_logger factory and the    *)
(* row streamer main().                                                    *)
(*                                                                         *)
(* A Python str is a sequence of one-character strings.                    *)
(***************************************************************************)
EXTENDS Naturals, Sequences, FiniteSets

VARIABLES
    \* ---- redaction engine (filter_datum called on its own) ----
    fields,        \* the `fields` argument: a sequence of field names
    separator,     \* the `separator` argument: one character
    message,       \* the `message` argument
    redacted,      \* the value returned by the latest filter_datum call
    previous,      \* the value returned by the call before the latest one
    calls,         \* number of filter_datum calls made so far (0, 1, 2)
    \* ---- RedactingFormatter used on its own ----
    formatter,     \* the RedactingFormatter constructed, or None
    record,        \* the LogRecord last handed to formatter.format, or None
    line,          \* the str formatter.format returned for it
    \* ---- the logging module's state for the logger named "user_data" ----
    level,         \* logger.level
    propagate,     \* logger.propagate
    handlers,      \* logger.handlers: one entry per attached StreamHandler
    stream,        \* what the StreamHandlers have written, line by line
    loggerCalls,   \* number of get_logger() calls made so far
    lastEmit,      \* lines written by the latest logging call (None: no call yet)
    \* ---- main() ----
    pc,            \* main()'s position
    dbName,        \* whether PERSONAL_DATA_DB_NAME is set in the environment
    table,         \* the rows of the users table
    conn,          \* the connection: "none", "open" or "closed"
    cursor,        \* the cursor: "none", "open" or "closed"
    rows,          \* the local variable rows
    idx,           \* index in rows of the row the for loop handles next
    logged,        \* the (level, message) pairs main() passed to the logger
    printed,       \* number of "Error: ..." lines printed on stdout
    pending,       \* the exception in flight while the finally block runs
    outcome,       \* how main() ended: "running", "returned" or "raised"
    failures       \* the calls that raised during this run

fvars == <<fields, separator, message, redacted, previous, calls>>
rvars == <<formatter, record, line>>
lvars == <<level, propagate, handlers, stream, loggerCalls, lastEmit>>
mvars == <<pc, dbName, table, conn, cursor, rows, idx, logged, printed, pending,
           outcome, failures>>

vars == <<fvars, rvars, lvars, mvars>>

\* An attribute or variable that may be None holds <<>> for None and <<v>> for
\* the value v; an exception name is a string, "None" when there is none.
None == <<>>
Some(v) == <<v>>
NoException == "None"

\* ------------------------------------------------------------------ bounds

MaxLen == 5     \* longest message drawn as an input of filter_datum

\* Characters of the input messages.
Alphabet == {"a", "b", "=", ";", ",", "*"}

\* Field names drawn as inputs: "a" is a suffix of "aa".
FieldA == <<"a">>
FieldAA == <<"a", "a">>
FieldLists == {<<>>, <<FieldA>>, <<FieldAA>>, <<FieldA, FieldAA>>, <<FieldAA, FieldA>>}

Separators == {";", ","}

RECURSIVE StringsUpTo(_)
StringsUpTo(n) ==
    IF n = 0 THEN {<<>>}
    ELSE LET shorter == StringsUpTo(n - 1)
         IN  shorter \cup {Append(s, c) : s \in {t \in shorter : Len(t) = n - 1}, c \in Alphabet}

Messages == StringsUpTo(MaxLen)

\* ------------------------------------------------- filter_datum (lines 14-32)

\* RedactingFormatter.REDACTION = "***"
REDACTION == <<"*", "*", "*">>

\* '|'.join(re.escape(field) for field in fields): the alternatives of group 1,
\* in order.  Joining no names gives the empty pattern, which matches "".
Alternatives(fs) == IF fs = <<>> THEN << <<>> >> ELSE fs

\* The character class [^<separator>;]: what a value character may not be.
Excluded(sep) == {sep, ";"}

\* re.escape(field): the field name matches literally at position pos of s.
StartsWith(s, pos, f) ==
    /\ pos + Len(f) - 1 <= Len(s)
    /\ \A i \in 1..Len(f) : s[pos + i - 1] = f[i]

\* A lazy run [^sep;]+? in place of the greedy one: one character.
ValueEndLazy(s, i, sep) == i

\* The greedy run [^sep;]+ that starts at i (s[i] is a value character): the
\* index of its last character.

RECURSIVE ValueEnd(_, _, _)
ValueEnd(s, i, sep) ==
    IF i + 1 <= Len(s) /\ s[i + 1] \notin Excluded(sep)
    THEN ValueEnd(s, i + 1, sep)
    ELSE i

\* Where a match of  f "=" [^sep;]+  that starts at pos ends; 0 when there is
\* no match at pos with this alternative.
MatchEnd(s, pos, f, sep) ==
    LET eq == pos + Len(f)
    IN  IF /\ StartsWith(s, pos, f)
           /\ eq + 1 <= Len(s)
           /\ s[eq] = "="
           /\ s[eq + 1] \notin Excluded(sep)
        THEN ValueEnd(s, eq + 1, sep)
        ELSE 0

\* The first alternative (in order) that matches at pos; 0 when none does.
FirstAlt(s, pos, alts, sep) ==
    LET hits == {k \in 1..Len(alts) : MatchEnd(s, pos, alts[k], sep) > 0}
    IN  IF hits = {} THEN 0
        ELSE CHOOSE k \in hits : \A j \in hits : k <= j

\* re.sub(pattern, lambda m: f'{m.group(1)}={redaction}', message): leftmost,
\* non-overlapping matches, scanning from pos.
RECURSIVE Sub(_, _, _, _, _)
Sub(s, pos, alts, redaction, sep) ==
    IF pos > Len(s) THEN <<>>
    ELSE LET k == FirstAlt(s, pos, alts, sep)
         IN  IF k = 0
             THEN <<s[pos]>> \o Sub(s, pos + 1, alts, redaction, sep)
             ELSE alts[k] \o <<"=">> \o redaction
                    \o Sub(s, MatchEnd(s, pos, alts[k], sep) + 1, alts, redaction, sep)

filter_datum(fs, redaction, msg, sep) ==
    Sub(msg, 1, Alternatives(fs), redaction, sep)


\* ------------------------------------------- RedactingFormatter (lines 35-65)

\* PII_FIELDS = ("email", "password", "ssn", "phone_number", "address")
PII_FIELDS ==
    << <<"e", "m", "a", "i", "l">>,
       <<"p", "a", "s", "s", "w", "o", "r", "d">>,
       <<"s", "s", "n">>,
       <<"p", "h", "o", "n", "e", "_", "n", "u", "m", "b", "e", "r">>,
       <<"a", "d", "d", "r", "e", "s", "s">> >>

\* RedactingFormatter.SEPARATOR = ";"
SEPARATOR == ";"

\* RedactingFormatter.__init__(fields): the field list is stored as given.
RedactingFormatter(fs) == [fields |-> fs]

\* A LogRecord made for a logging call without arguments: msg is the raw
\* message, message the attribute that formatting sets (not set yet: "").
LogRecord(name, levelname, asctime, msg) ==
    [name |-> name, levelname |-> levelname, asctime |-> asctime, msg |-> msg,
     message |-> <<>>]

\* record.getMessage() of a record without args: str(record.msg).
getMessage(rec) == rec.msg

\* FORMAT % record.__dict__ :
\* "[HOLBERTON] %(name)s %(levelname)s %(asctime)-15s: %(message)s"
Tag == <<"[", "H", "O", "L", "B", "E", "R", "T", "O", "N", "]">>

LevelChars(l) == CASE l = "DEBUG" -> <<"D", "E", "B", "U", "G">>
                   [] l = "INFO" -> <<"I", "N", "F", "O">>
                   [] l = "WARNING" -> <<"W", "A", "R", "N", "I", "N", "G">>

\* Everything of the line before %(message)s.  An asctime has 23 characters,
\* so the width of -15s adds no padding.
Prefix(rec) ==
    Tag \o <<" ">> \o rec.name \o <<" ">> \o LevelChars(rec.levelname) \o <<" ">>
        \o rec.asctime \o <<":", " ">>

FORMAT(rec) == Prefix(rec) \o rec.message

\* logging.Formatter.format, reached by the super() call of line 65: it sets
\* record.message = record.getMessage() itself, then fills the template.
Formatter_format(rec) ==
    FORMAT([rec EXCEPT !.message = getMessage(rec)])

\* RedactingFormatter.format: line 64 stores the redacted text in
\* record.message, line 65 hands the record to logging.Formatter.format.
RedactingFormatter_format(fmt, rec) ==
    Formatter_format(
        [rec EXCEPT !.message =
            filter_datum(fmt.fields, REDACTION, getMessage(rec), SEPARATOR)])

\* The record as formatter.format leaves it: record.message was assigned at
\* line 64 and again by logging.Formatter.format.
RecordAfterFormat(fmt, rec) ==
    [rec EXCEPT !.message = getMessage(
        [rec EXCEPT !.message =
            filter_datum(fmt.fields, REDACTION, getMessage(rec), SEPARATOR)])]

\* ---------------------------------------------------- get_logger (lines 69-99)

\* The numeric value of a logging level name.
LevelNo(l) == CASE l = "NOTSET" -> 0 [] l = "DEBUG" -> 10 [] l = "INFO" -> 20 [] l = "WARNING" -> 30

\* A StreamHandler with its formatter set (lines 88-94).
StreamHandler(fmt) == [formatter |-> fmt]

\* logger.addHandler(stream_handler) with a handler object made by this call:
\* it is in no list yet, so it is appended.
addHandler(hs, h) == Append(hs, h)

\* The lines the handlers in hs write for rec, one per handler, in order:
\* StreamHandler.emit writes self.format(record).
RECURSIVE callHandlers(_, _)
callHandlers(hs, rec) ==
    IF hs = <<>> THEN <<>>
    ELSE <<RedactingFormatter_format(hs[1].formatter, rec)>>
            \o callHandlers(Tail(hs), rec)

\* The time stamp of a record: the clock is not modelled, every record
\* carries the same rendered time.
Asctime ==
    <<"2", "0", "2", "6", "-", "1", "0", "-", "2", "9", " ", "0", "1", ":", "4", "6", ":", "5", "9", ",", "6", "9", "1">>

LoggerName == <<"u", "s", "e", "r", "_", "d", "a", "t", "a">>

\* ------------------------------------------------------------ the inputs

MaxGetLogger == 3   \* get_logger() calls in one run
MaxStream == 2      \* logging stops once the stream holds this many lines
MaxRows == 3        \* most rows in the users table

Levels == {"DEBUG", "INFO", "WARNING"}

\* Messages handed to the formatter and the logger.
LogMessages ==
    { <<>>,
      <<"e", "m", "a", "i", "l", "=", "a", ";", "s", "s", "n", "=", "b">>,
      <<"s", "s", "n", "=", ";">>,
      <<"u", "s", "e", "r", "_", "e", "m", "a", "i", "l", "=", "a">>,
      <<"n", "a", "m", "e", "=", "b", ";", "p", "a", "s", "s", "w", "o", "r", "d", "=", "a", ";">> }

RecordNames == {LoggerName, <<"e", "m", "a", "i", "l", "=", "a">>}

FormatterFields ==
    { <<>>, PII_FIELDS, <<PII_FIELDS[3]>>, <<PII_FIELDS[1], PII_FIELDS[2]>> }

\* ---------------------------------------- the parts a specification leaves idle

IdleFilter ==
    /\ fields = <<>> /\ separator = SEPARATOR /\ message = <<>>
    /\ redacted = <<>> /\ previous = <<>> /\ calls = 0

IdleFormatter == formatter = None /\ record = None /\ line = <<>>

\* A logger logging.getLogger has just created: level NOTSET, propagate on,
\* no handler.
InitLogging ==
    /\ level = "NOTSET" /\ propagate = TRUE /\ handlers = <<>>
    /\ stream = <<>> /\ loggerCalls = 0 /\ lastEmit = None

IdleMain ==
    /\ pc = "idle" /\ dbName = FALSE /\ table = <<>> /\ conn = "none"
    /\ cursor = "none" /\ rows = <<>> /\ idx = 0 /\ logged = <<>> /\ printed = 0
    /\ pending = NoException /\ outcome = "running" /\ failures = {}

\* --------------------------------------------------------- SpecFilter

InitFilter ==
    /\ fields \in FieldLists
    /\ separator \in Separators
    /\ message \in Messages
    /\ redacted = <<>>
    /\ previous = <<>>
    /\ calls = 0
    /\ IdleFormatter /\ InitLogging /\ IdleMain

\* redacted = filter_datum(fields, '***', message, separator)
Redact ==
    /\ calls = 0
    /\ redacted' = filter_datum(fields, REDACTION, message, separator)
    /\ calls' = 1
    /\ UNCHANGED <<fields, separator, message, previous, rvars, lvars, mvars>>

\* redacted = filter_datum(fields, '***', redacted, separator)
RedactAgain ==
    /\ calls = 1
    /\ previous' = redacted
    /\ redacted' = filter_datum(fields, REDACTION, redacted, separator)
    /\ calls' = 2
    /\ UNCHANGED <<fields, separator, message, rvars, lvars, mvars>>

NextFilter == Redact \/ RedactAgain

SpecFilter == InitFilter /\ [][NextFilter]_vars

\* ------------------------------------------------------- SpecFormatter

InitFormatter == IdleFilter /\ IdleFormatter /\ InitLogging /\ IdleMain

\* formatter = RedactingFormatter(fields=fs)
NewFormatter ==
    /\ formatter = None
    /\ \E fs \in FormatterFields : formatter' = Some(RedactingFormatter(fs))
    /\ UNCHANGED <<record, line, fvars, lvars, mvars>>

\* line = formatter.format(record)
Format ==
    /\ formatter # None
    /\ \E name \in RecordNames, lvl \in Levels, msg \in LogMessages :
          LET rec == LogRecord(name, lvl, Asctime, msg)
          IN  /\ line' = RedactingFormatter_format(formatter[1], rec)
              /\ record' = Some(RecordAfterFormat(formatter[1], rec))
    /\ UNCHANGED <<formatter, fvars, lvars, mvars>>

NextFormatter == NewFormatter \/ Format

SpecFormatter == InitFormatter /\ [][NextFormatter]_vars

\* ---------------------------------------------------------- SpecLogger

InitLogger == IdleFilter /\ IdleFormatter /\ InitLogging /\ IdleMain

\* get_logger(), lines 79-99.
GetLogger ==
    /\ loggerCalls < MaxGetLogger
    /\ level' = "INFO"
    /\ propagate' = FALSE
    /\ handlers' = addHandler(handlers, StreamHandler(RedactingFormatter(PII_FIELDS)))
    /\ loggerCalls' = loggerCalls + 1
    /\ UNCHANGED <<stream, lastEmit, fvars, rvars, mvars>>

\* What logger.log(lvl, msg) writes on the logger get_logger returned: nothing
\* below the logger's level, else one line per handler (propagate is off).
Emitted(lvl, msg) ==
    IF LevelNo(lvl) >= LevelNo(level)
    THEN callHandlers(handlers, LogRecord(LoggerName, lvl, Asctime, msg))
    ELSE <<>>

\* logger.log(lvl, msg) on the logger a get_logger() call returned.
Log ==
    /\ loggerCalls >= 1
    /\ Len(stream) < MaxStream
    /\ \E lvl \in Levels, msg \in LogMessages :
          /\ stream' = stream \o Emitted(lvl, msg)
          /\ lastEmit' = Some([lvl |-> lvl, n |-> Len(Emitted(lvl, msg))])
    /\ UNCHANGED <<level, propagate, handlers, loggerCalls, fvars, rvars, mvars>>

NextLogger == GetLogger \/ Log

SpecLogger == InitLogger /\ [][NextLogger]_vars

\* ------------------------------------------------------ main (lines 145-174)

\* The message names row[0] .. row[7]: a row needs eight columns.
Columns == 8

\* The f-string of lines 164-165; a column value is the str() of the column.
RowMessage(row) ==
    <<"n", "a", "m", "e", "=">> \o row[1]
      \o <<";", " ", "e", "m", "a", "i", "l", "=">> \o row[2]
      \o <<";", " ", "p", "h", "o", "n", "e", "=">> \o row[3]
      \o <<";", " ", "s", "s", "n", "=">> \o row[4]
      \o <<";", " ", "p", "a", "s", "s", "w", "o", "r", "d", "=">> \o row[5]
      \o <<";", " ">>
      \o <<"i", "p", "=">> \o row[6]
      \o <<";", " ", "l", "a", "s", "t", "_", "l", "o", "g", "i", "n", "=">> \o row[7]
      \o <<";", " ", "u", "s", "e", "r", "_", "a", "g", "e", "n", "t", "=">> \o row[8]
      \o <<";">>

\* Rows of the users table: two with the eight columns, one with three.
RowA == [i \in 1..Columns |-> <<"a">>]
RowB == [i \in 1..Columns |-> <<"b">>]
ShortRow == <<<<"a">>, <<"b">>, <<"a">>>>
TableRows == {RowA, RowB, ShortRow}

RECURSIVE TablesUpTo(_)
TablesUpTo(n) ==
    IF n = 0 THEN {<<>>}
    ELSE LET shorter == TablesUpTo(n - 1)
         IN  shorter \cup {Append(tb, r) : tb \in {u \in shorter : Len(u) = n - 1},
                                          r \in TableRows}

\* cursor.fetchone() in place of fetchall(): the first row only.
fetchone(tb) == IF tb = <<>> THEN <<>> ELSE <<tb[1]>>

\* cursor.fetchall() after SELECT * FROM users: every row, in table order.
fetchall(tb) == tb

InitMain ==
    /\ IdleFilter /\ IdleFormatter /\ InitLogging
    /\ pc = "start"
    /\ dbName \in BOOLEAN
    /\ table \in TablesUpTo(MaxRows)
    /\ conn = "none" /\ cursor = "none" /\ rows = <<>> /\ idx = 0
    /\ logged = <<>> /\ printed = 0 /\ pending = NoException
    /\ outcome = "running" /\ failures = {}

\* main() ends by raising exception e out of the call named step.
Raise(step, e) ==
    /\ failures' = failures \cup {step}
    /\ pending' = e
    /\ outcome' = "raised"
    /\ pc' = "done"

\* line 151: logger = get_logger()
MainGetLogger ==
    /\ pc = "start"
    /\ level' = "INFO"
    /\ propagate' = FALSE
    /\ handlers' = addHandler(handlers, StreamHandler(RedactingFormatter(PII_FIELDS)))
    /\ loggerCalls' = loggerCalls + 1
    /\ pc' = "get_db"
    /\ UNCHANGED <<stream, lastEmit, fvars, rvars, dbName, table, conn, cursor, rows,
                   idx, logged, printed, pending, outcome, failures>>

\* line 154: db = get_db().  Without a database name get_db raises ValueError
\* (lines 121-122); a connect() that fails, or a connection that is not
\* connected, is printed and raised again as Error (lines 137-141).
MainGetDb ==
    /\ pc = "get_db"
    /\ \/ /\ ~dbName
          /\ Raise("get_db", "ValueError")
          /\ UNCHANGED <<conn, printed>>
       \/ /\ dbName
          /\ conn' = "open"
          /\ pc' = "cursor"
          /\ UNCHANGED <<printed, pending, outcome, failures>>
       \/ /\ dbName
          /\ printed' = printed + 1
          /\ Raise("get_db", "Error")
          /\ UNCHANGED conn
    /\ UNCHANGED <<fvars, rvars, lvars, dbName, table, cursor, rows, idx, logged>>

\* line 155: cursor = db.cursor(), before the try statement.
MainCursor ==
    /\ pc = "cursor"
    /\ \/ /\ cursor' = "open"
          /\ pc' = "execute"
          /\ UNCHANGED <<pending, outcome, failures>>
       \/ /\ Raise("cursor", "Error")
          /\ UNCHANGED cursor
    /\ UNCHANGED <<fvars, rvars, lvars, dbName, table, conn, rows, idx, logged, printed>>

\* line 158: cursor.execute("SELECT * FROM users;"); an Error goes to the
\* except clause of line 169.
MainExecute ==
    /\ pc = "execute"
    /\ \/ /\ pc' = "fetchall"
          /\ UNCHANGED failures
       \/ /\ pc' = "except"
          /\ failures' = failures \cup {"execute"}
    /\ UNCHANGED <<fvars, rvars, lvars, dbName, table, conn, cursor, rows, idx, logged,
                   printed, pending, outcome>>

\* line 159: rows = cursor.fetchall()
MainFetchall ==
    /\ pc = "fetchall"
    /\ \/ /\ rows' = fetchall(table)
          /\ idx' = 1
          /\ pc' = "loop"
          /\ UNCHANGED failures
       \/ /\ pc' = "except"
          /\ failures' = failures \cup {"fetchall"}
          /\ UNCHANGED <<rows, idx>>
    /\ UNCHANGED <<fvars, rvars, lvars, dbName, table, conn, cursor, logged, printed,
                   pending, outcome>>

\* lines 162-167, one iteration: the message is built from the row, then
\* logger.info(user_data) hands it to the handlers.
MainLogRow ==
    /\ pc = "loop"
    /\ idx <= Len(rows)
    /\ Len(rows[idx]) >= Columns
    /\ LET user_data == RowMessage(rows[idx])
       IN  /\ logged' = Append(logged, [lvl |-> "INFO", msg |-> user_data])
           /\ stream' = stream \o Emitted("INFO", user_data)
           /\ lastEmit' = Some([lvl |-> "INFO", n |-> Len(Emitted("INFO", user_data))])
    /\ idx' = idx + 1
    /\ UNCHANGED <<fvars, rvars, level, propagate, handlers, loggerCalls, pc, dbName,
                   table, conn, cursor, rows, printed, pending, outcome, failures>>

\* lines 163-166 on a row with fewer than eight columns: row[k] raises
\* IndexError, which no except clause catches; the finally block runs.
MainRowError ==
    /\ pc = "loop"
    /\ idx <= Len(rows)
    /\ Len(rows[idx]) < Columns
    /\ failures' = failures \cup {"row"}
    /\ pending' = "IndexError"
    /\ pc' = "cursor_close"
    /\ UNCHANGED <<fvars, rvars, lvars, dbName, table, conn, cursor, rows, idx, logged,
                   printed, outcome>>

\* line 162: the rows are exhausted; the finally block runs.
MainLoopEnd ==
    /\ pc = "loop"
    /\ idx > Len(rows)
    /\ pc' = "cursor_close"
    /\ UNCHANGED <<fvars, rvars, lvars, dbName, table, conn, cursor, rows, idx, logged,
                   printed, pending, outcome, failures>>

\* lines 169-170: except Error as e: print(f"Error: {e}"); the exception is
\* handled and the finally block runs.
MainExcept ==
    /\ pc = "except"
    /\ printed' = printed + 1
    /\ pc' = "cursor_close"
    /\ UNCHANGED <<fvars, rvars, lvars, dbName, table, conn, cursor, rows, idx, logged,
                   pending, outcome, failures>>

\* line 173: cursor.close(); when it raises, line 174 is not reached.
MainCursorClose ==
    /\ pc = "cursor_close"
    /\ \/ /\ cursor' = "closed"
          /\ pc' = "db_close"
          /\ UNCHANGED <<pending, outcome, failures>>
       \/ /\ Raise("cursor_close", "Error")
          /\ UNCHANGED cursor
    /\ UNCHANGED <<fvars, rvars, lvars, dbName, table, conn, rows, idx, logged, printed>>

\* line 174: db.close(); then the exception in flight, if any, goes on.
MainDbClose ==
    /\ pc = "db_close"
    /\ \/ /\ conn' = "closed"
          /\ outcome' = IF pending = NoException THEN "returned" ELSE "raised"
          /\ pc' = "done"
          /\ UNCHANGED <<pending, failures>>
       \/ /\ Raise("db_close", "Error")
          /\ UNCHANGED conn
    /\ UNCHANGED <<fvars, rvars, lvars, dbName, table, cursor, rows, idx, logged, printed>>

NextMain ==
    \/ MainGetLogger \/ MainGetDb \/ MainCursor \/ MainExecute \/ MainFetchall
    \/ MainLogRow \/ MainRowError \/ MainLoopEnd \/ MainExcept
    \/ MainCursorClose \/ MainDbClose

SpecMain == InitMain /\ [][NextMain]_vars

\* ================================================================ claims

Range(f) == {f[i] : i \in DOMAIN f}

\* message.split(separator): the segments of s, in order.
RECURSIVE Split(_, _)
Split(s, sep) ==
    LET at == {i \in 1..Len(s) : s[i] = sep}
    IN  IF at = {} THEN <<s>>
        ELSE LET i == CHOOSE j \in at : \A k \in at : j <= k
             IN  <<SubSeq(s, 1, i - 1)>> \o Split(SubSeq(s, i + 1, Len(s)), sep)

IsPrefix(p, s) == Len(p) <= Len(s) /\ SubSeq(s, 1, Len(p)) = p

\* The key of a segment: what stands before its first "=" (all of it when it
\* has none).
Key(seg) ==
    LET at == {i \in 1..Len(seg) : seg[i] = "="}
    IN  IF at = {} THEN seg
        ELSE SubSeq(seg, 1, (CHOOSE j \in at : \A k \in at : j <= k) - 1)

\* The segment f=*** .
Masked(f) == f \o <<"=">> \o REDACTION

\* C2 as stated: every segment f=v of the message with f a listed field and v
\* free of the separator and of ";" is the segment f=*** of the output, at the
\* same segment position.
C2_AsStated ==
    calls = 1 =>
        LET I == Split(message, separator)
            O == Split(redacted, separator)
        IN  /\ Len(O) = Len(I)
            /\ \A n \in 1..Len(I) : \A k \in 1..Len(fields) :
                  (IsPrefix(fields[k] \o <<"=">>, I[n]) /\ ";" \notin Range(I[n]))
                      => O[n] = Masked(fields[k])

\* What the code does for C2's segments: the same, for the segments whose
\* value is not empty.
RedactsNonEmptyValues ==
    calls = 1 =>
        LET I == Split(message, separator)
            O == Split(redacted, separator)
        IN  /\ Len(O) = Len(I)
            /\ \A n \in 1..Len(I) : \A k \in 1..Len(fields) :
                  (/\ IsPrefix(fields[k] \o <<"=">>, I[n])
                   /\ Len(I[n]) > Len(fields[k]) + 1
                   /\ ";" \notin Range(I[n]))
                      => O[n] = Masked(fields[k])

\* C3 as stated: a segment "f=" of a listed field f with an empty value
\* (followed by the separator or the end of the message) is rewritten to
\* f=*** .
C3_AsStated ==
    calls = 1 =>
        LET I == Split(message, separator)
            O == Split(redacted, separator)
        IN  \A n \in 1..Len(I) : \A k \in 1..Len(fields) :
                I[n] = fields[k] \o <<"=">>
                    => (n \in DOMAIN O /\ O[n] = Masked(fields[k]))

\* C4 as stated: with a field list that is not empty, every segment whose key
\* is not a listed field (and that holds no ";") is the same in the output, at
\* the same segment position; this covers a key that ends with a listed field.
C4_AsStated ==
    (calls = 1 /\ fields # <<>>) =>
        LET I == Split(message, separator)
            O == Split(redacted, separator)
        IN  /\ Len(O) = Len(I)
            /\ \A n \in 1..Len(I) :
                  (Key(I[n]) \notin Range(fields) /\ ";" \notin Range(I[n]))
                      => O[n] = I[n]

\* C6: redaction is idempotent: the second filter_datum call, applied to the
\* output of the first with the same fields and separator, returns its input.
C6_Idempotent == calls = 2 => redacted = previous

\* A second call was made on an output in which the first call had redacted
\* a value.
C6_Witness == calls = 2 /\ previous # message /\ fields # <<>>

\* C1 as stated: the line format returns (here for a formatter with a field
\* list that is not empty) is the prefix made of tag, name, level and time
\* stamp, followed by filter_datum(fields, '***', message, ';').
C1_AsStated ==
    (record # None /\ formatter[1].fields # <<>>) =>
        line = Prefix(record[1])
                 \o filter_datum(formatter[1].fields, REDACTION,
                                 getMessage(record[1]), SEPARATOR)

\* C7 as stated: no RedactingFormatter with an empty field list exists.
C7_AsStated == formatter # None => formatter[1].fields # <<>>

\* C5 as stated: once get_logger() has been called, however often, the logger
\* has exactly one handler, and a record logged at INFO or above is written
\* exactly once.
C5_AsStated ==
    loggerCalls >= 1 =>
        /\ Len(handlers) = 1
        /\ (lastEmit # None /\ LevelNo(lastEmit[1].lvl) >= LevelNo("INFO"))
              => lastEmit[1].n = 1

\* C8 as stated: once the connection has been obtained, when main() has ended
\* (db.close() itself not having raised) the connection is closed, and so is
\* the cursor if one was created.
C8_AsStated ==
    (pc = "done" /\ conn # "none" /\ "db_close" \notin failures) =>
        /\ conn = "closed"
        /\ cursor # "none" => cursor = "closed"

\* C9 as stated: when get_db(), cursor.execute() or cursor.fetchall() raised,
\* main() ends by raising.
C9_AsStated ==
    (pc = "done" /\ failures \cap {"get_db", "execute", "fetchall"} # {}) =>
        outcome = "raised"

\* The query succeeded: the try block was entered and neither execute nor
\* fetchall raised, and the for loop has been left.
QuerySucceeded ==
    /\ pc \in {"cursor_close", "db_close", "done"}
    /\ cursor # "none"
    /\ failures \cap {"execute", "fetchall"} = {}

\* C10: the messages passed to the logger are, in row order, the INFO messages
\* built each from its own row; none is passed when execute or fetchall
\* raised; and when the query succeeded on a table whose rows all have the
\* eight columns the message names, there is exactly one message per row.
C10_OneMessagePerRow ==
    /\ failures \cap {"execute", "fetchall"} # {} => logged = <<>>
    /\ Len(logged) <= Len(table)
    /\ \A i \in 1..Len(logged) :
          logged[i] = [lvl |-> "INFO", msg |-> RowMessage(table[i])]
    /\ (QuerySucceeded /\ \A i \in 1..Len(table) : Len(table[i]) >= Columns)
          => Len(logged) = Len(table)

\* main() has returned after logging two different rows.
C10_Witness ==
    /\ pc = "done" /\ outcome = "returned"
    /\ Len(logged) = 2 /\ logged[1] # logged[2]

====
